---- MODULE Spec2Model ----
(***************************************************************************)
(* Release tracking and notification engine of the Telegram calendar bot   *)
(* (src/main.py): the four highlight/favourite sets and their durable     *)
(* file, the per-chat recurring notification job, the notification tick   *)
(* (notify_releases) and the /series listing as step machines that        *)
(* suspend at every provider call, and the handlers that mutate the sets. *)
(*                                                                         *)
(* Scheduling: one asyncio event loop.  Update handlers are processed one *)
(* at a time (the application is built without concurrent updates), jobs  *)
(* run as separate tasks, so a job interleaves with handlers at each of   *)
(* its awaits.  The application is built with its default job queue.      *)
(***************************************************************************)
EXTENDS Integers, Sequences, FiniteSets, TLC

\* ---------------------------------------------------------------- bounds
MaxDay == 2          \* days the clock may advance
MaxResults == 2      \* longest provider search response

\* ------------------------------------------------------- program constants
NOTIFY_INTERVAL == 1          \* 24 h, in days
NOTIFY_LOOKAHEAD_DAYS == 3
SERIES_LOOKAHEAD_DAYS == 120

Chats == {41, 42}
Users == {7}
\* every user of a chat: a conversation is kept for each (chat, user)
AllUsers == {7, 8}

\* ---------------------------------------------------------------- strings
\* A string is its letters (base), whether it has upper-case letters, and
\* the " (year)" suffixes appended to it.
Str(b, c) == [base |-> b, caps |-> c, sfx |-> <<>>]
NoStr == Str("", FALSE)

\* str.lower()
lower(s) == [s EXCEPT !.caps = FALSE]

\* f"{name} ({year})"
Entry(name, year) == [name EXCEPT !.sfx = Append(@, year)]

\* ------------------------------------------------------------------ dates
\* A date field of a provider record: a well-formed "YYYY-MM-DD" string
\* (the day it denotes), another non-empty text, the empty string, or None.
Ymd(n) == [kind |-> "ymd", day |-> n]
BadDate == [kind |-> "text", day |-> 0]
EmptyDate == [kind |-> "empty", day |-> 0]
NoDate == [kind |-> "none", day |-> 0]

\* truthiness of a str-or-None
TruthyDate(d) == d.kind \in {"ymd", "text"}

\* datetime.strptime(d, "%Y-%m-%d").date() inside try/except: <<day>> or <<>>
strptime(d) == IF d.kind = "ymd" THEN <<d.day>> ELSE <<>>

\* airdate_obj and now <= airdate_obj <= cutoff
InWindow_upto(d, now, cutoff) ==
    LET p == strptime(d) IN Len(p) = 1 /\ p[1] <= cutoff
InWindow(d, now, cutoff) ==
    LET p == strptime(d) IN Len(p) = 1 /\ now <= p[1] /\ p[1] <= cutoff

\* truthiness of an int-or-None (None is <<>>, n is <<n>>)
TruthyNum_zero(n) == Len(n) = 1
TruthyNum(n) == Len(n) = 1 /\ n[1] # 0

\* ------------------------------------------------------------ the provider
Season(n, d) == [season_number |-> n, air_date |-> d]

\* popularity is a decimal number, kept in tenths: <<507>> is 50.7, <<>> is
\* a record without the key
ShowIds == 1..3
TVDetails ==
    [id \in ShowIds |->
        CASE id = 1 -> [name |-> Str("severance", TRUE), year |-> "2022",
                         popularity |-> <<507>>,
                         seasons |-> << Season(<<0>>, Ymd(1)),
                                        Season(<<1>>, Ymd(2)),
                                        Season(<<2>>, Ymd(3)),
                                        Season(<<3>>, BadDate) >>]
          [] id = 2 -> [name |-> Str("severance: the podcast", TRUE),
                         year |-> "2024", popularity |-> <<>>,
                         seasons |-> << Season(<<1>>, Ymd(1)) >>]
          [] id = 3 -> [name |-> Str("you", TRUE), year |-> "2018",
                         popularity |-> <<502>>,
                         seasons |-> << Season(<<1>>, Ymd(0)),
                                        Season(<<2>>, BadDate),
                                        Season(<<3>>, NoDate),
                                        Season(<<>>, Ymd(2)),
                                        Season(<<4>>, Ymd(5)),
                                        Season(<<5>>, Ymd(200)) >>]]

MovieIds == 1..5
MovieRecords ==
    [id \in MovieIds |->
        CASE id = 1 -> [title |-> Str("dune", TRUE), release_date |-> Ymd(2),
                         year |-> "2024"]
          [] id = 2 -> [title |-> Str("dune", TRUE), release_date |-> Ymd(10),
                         year |-> "2024"]
          [] id = 3 -> [title |-> Str("dune: part two", TRUE),
                         release_date |-> Ymd(1), year |-> "2024"]
          [] id = 4 -> [title |-> Str("dune", TRUE), release_date |-> BadDate,
                         year |-> "soon"]
          [] id = 5 -> [title |-> Str("wonka", TRUE), release_date |-> NoDate,
                         year |-> ""]]

\* data.get('results', []) of a search: any list of records, fuzzy matched
SeqsUpTo(S, n) == UNION {[1..k -> S] : k \in 0..n}
TVResponses == SeqsUpTo(ShowIds, MaxResults)
MovieResponses == SeqsUpTo(MovieIds, MaxResults)

\* ------------------------------------------------------- the durable file
\* highlight_lists.json: absent, or a text that json.load reads as an
\* object ("object"), or one it rejects ("malformed"; "truncated" when a
\* write was cut short).  Under each key of the object: <<S>>, an array
\* with the elements S, or <<>>, no such key.
Keys(s, m, fs, fm) ==
    [exists |-> TRUE, json |-> "object", series |-> s, movies |-> m,
     favourite_series |-> fs, favourite_movies |-> fm]
Doc(s, m, fs, fm) == Keys(<<s>>, <<m>>, <<fs>>, <<fm>>)
\* data.get(key, []) as a set
Get(a) == IF a = <<>> THEN {} ELSE a[1]
Absent == [exists |-> FALSE, json |-> "", series |-> <<>>, movies |-> <<>>,
           favourite_series |-> <<>>, favourite_movies |-> <<>>]
Malformed == [Absent EXCEPT !.exists = TRUE, !.json = "malformed"]
Truncated == [Absent EXCEPT !.exists = TRUE, !.json = "truncated"]

\* the seed sets the module starts with (two entries of each stand for all)
SeedSeries == {Str("severance", FALSE), Str("you", FALSE)}
SeedMovies == {Str("dune", FALSE), Str("wonka", FALSE)}

\* files a deployment may start from
Files == {Absent,
          Doc({Str("you", FALSE)}, {Str("dune", FALSE)}, {}, {})}

\* more of them: a file written by hand with capitals and two spellings of
\* one favourite, a file with the "movies" key only, a file that is not JSON
StoreFiles ==
    Files \cup
    { Doc({Str("you", TRUE)}, {Str("dune", FALSE)},
          {}, {Str("dune", TRUE), Str("dune", FALSE)}),
      Keys(<<>>, << {Str("dune", FALSE)} >>, <<>>, <<>>),
      Malformed }

\* ------------------------------------------------------------------ state
VARIABLES
    phase,               \* "boot" before __main__ ran, then "running"
    today,               \* get_utc_today(), as a day number
    file,                \* highlight_lists.json
    highlight_titles, highlight_movies, favourite_series, favourite_movies,
    jobs,                \* the job queue: name -> the active jobs of that name
    conv,                \* ConversationHandler state of addseries_conv, per chat
    user_addseries_context,  \* chat id -> pending results (<<>>: no entry)
    conv_movie,          \* ConversationHandler state of addmovie_conv
    user_addmovie_context,   \* chat id -> pending results (<<>>: no entry)
    reply,               \* the handler in flight, awaiting its reply_text
    run                  \* the matching run in flight (a tick or /series)

vars == <<phase, today, file, highlight_titles, highlight_movies,
          favourite_series, favourite_movies, jobs, conv,
          user_addseries_context, conv_movie, user_addmovie_context,
          reply, run>>

movie_flow == <<conv_movie, user_addmovie_context>>

store == <<highlight_titles, highlight_movies, favourite_series, favourite_movies>>

\* no handler in flight / handler h of chat c awaiting reply_text(t)
\* (removed: the length of the handler's local current_jobs)
\* added / already: the entries the handler stored / found present
NoReply == [handler |-> "", chat |-> 0, user |-> 0, text |-> "", removed |-> 0,
            added |-> <<>>, already |-> <<>>]
Reply(h, c, u, t) ==
    [handler |-> h, chat |-> c, user |-> u, text |-> t, removed |-> 0,
     added |-> <<>>, already |-> <<>>]

\* ---------------------------------------------------- iteration of a set
\* A set object is a table in which every string has its slot; iterating
\* walks the slots.  The iterator keeps its position and the size the set
\* had when the iteration began.
Universe ==
    SeedSeries \cup SeedMovies
    \cup UNION {Get(d.series) \cup Get(d.movies) : d \in StoreFiles}
    \cup {lower(Entry(TVDetails[i].name, TVDetails[i].year)) : i \in ShowIds}
    \cup {lower(Entry(MovieRecords[i].title, MovieRecords[i].year)) :
             i \in MovieIds}

RECURSIVE SlotsOf(_)
SlotsOf(S) == IF S = {} THEN <<>>
              ELSE LET x == CHOOSE y \in S : TRUE IN <<x>> \o SlotsOf(S \ {x})
Slots == SlotsOf(Universe)
Slot(t) == CHOOSE i \in 1..Len(Slots) : Slots[i] = t

iter(S) == [pos |-> 0, size |-> Cardinality(S)]

\* next(it): "changed" (RuntimeError: Set changed size during iteration),
\* "stop" (StopIteration) or "item" with the element and the advanced iterator
next_stops(it, S) == [res |-> "stop", item |-> NoStr, it |-> it]
next(it, S) ==
    LET rest == {t \in S : Slot(t) > it.pos} IN
    IF Cardinality(S) # it.size THEN [res |-> "changed", item |-> NoStr, it |-> it]
    ELSE IF rest = {} THEN [res |-> "stop", item |-> NoStr, it |-> it]
    ELSE LET t == CHOOSE u \in rest : \A v \in rest : Slot(u) <= Slot(v)
         IN [res |-> "item", item |-> t, it |-> [it EXCEPT !.pos = Slot(t)]]

\* ------------------------------------------------------ the matching run
\* The locals of notify_releases / series between two awaits (data: the
\* results of the search being looked through, idx: the next of them;
\* both are dropped once the loop over them has ended).  seen and start
\* record the titles the run iterated and the tracked sets it started from.
Idle ==
    [kind |-> "none", chat |-> 0, stage |-> "idle", now |-> 0, cutoff |-> 0,
     it |-> iter({}), highlight |-> NoStr, data |-> <<>>, idx |-> 0,
     upcoming_series |-> <<>>, upcoming_movies |-> <<>>,
     shows_to_display |-> <<>>, sent |-> <<>>, error |-> "",
     seen |-> [series |-> {}, movies |-> {}],
     start |-> [series |-> {}, movies |-> {}],
     page |-> 0, max_results |-> 0, results |-> <<>>]

\* name = details.get('name', '').lower(); if name != highlight: continue
NameMatches_any(name, highlight) == TRUE
NameMatches(name, highlight) == lower(name) = highlight

\* if air_date and season_number [and (season_number == 1 or season_number > 1)]
\*   ... if airdate_obj and now <= airdate_obj <= cutoff
Qualifies(season, now, cutoff) ==
    /\ TruthyDate(season.air_date)
    /\ TruthyNum(season.season_number)
    /\ InWindow(season.air_date, now, cutoff)

SeriesQualifies(season, now, cutoff) ==
    /\ Qualifies(season, now, cutoff)
    /\ season.season_number[1] >= 1

\* notify_releases, lines 459-469: one line per qualifying season
TickSeasons_once(id, via, now, cutoff) ==
    LET d == TVDetails[id]
        q == SelectSeq(d.seasons, LAMBDA s : Qualifies(s, now, cutoff)
                                             /\ s.air_date.day = cutoff)
    IN [i \in 1..Len(q) |->
           [id |-> id, name |-> d.name, label |-> q[i].season_number[1],
            date |-> q[i].air_date, via |-> via]]
TickSeasons(id, via, now, cutoff) ==
    LET d == TVDetails[id]
        q == SelectSeq(d.seasons, LAMBDA s : Qualifies(s, now, cutoff))
    IN [i \in 1..Len(q) |->
           [id |-> id, name |-> d.name, label |-> q[i].season_number[1],
            date |-> q[i].air_date, via |-> via]]

\* series, lines 560-571: the first qualifying season, then break
SeriesSeasons(id, via, now, cutoff) ==
    LET d == TVDetails[id]
        q == SelectSeq(d.seasons, LAMBDA s : SeriesQualifies(s, now, cutoff))
    IN IF q = <<>> THEN <<>>
       ELSE << [id |-> id, name |-> d.name, label |-> q[1].season_number[1],
                date |-> q[1].air_date, via |-> via,
                popularity |-> d.popularity] >>

\* notify_releases, lines 477-488: the movies of one search response
MovieLines(resp, via, now, cutoff) ==
    LET ok(id) == /\ NameMatches(MovieRecords[id].title, via)
                  /\ TruthyDate(MovieRecords[id].release_date)
                  /\ InWindow(MovieRecords[id].release_date, now, cutoff)
        q == SelectSeq(resp, ok)
    IN [i \in 1..Len(q) |->
           [id |-> q[i], name |-> MovieRecords[q[i]].title, label |-> 0,
            date |-> MovieRecords[q[i]].release_date, via |-> via]]

\* an exception leaves the coroutine: notify_releases has no handler for
\* it, series catches it at lines 610-612
Raise(r, e) == [r EXCEPT !.stage = "failed", !.error = e]

\* lines 489-496: one combined message, or nothing
TickFinish(r) ==
    IF r.upcoming_series # <<>> \/ r.upcoming_movies # <<>>
    THEN [r EXCEPT !.stage = "send"]
    ELSE [r EXCEPT !.stage = "done"]

\* lines 572-578: the first candidate of every key
\* (name.lower(), show_type, air_date) is kept, in order of appearance
DedupeKey(x) == <<lower(x.name), x.label, x.date>>

RECURSIVE Dedupe(_)
Dedupe(q) ==
    IF q = <<>> THEN <<>>
    ELSE LET d == Dedupe(SubSeq(q, 1, Len(q) - 1))
             x == q[Len(q)]
         IN IF \E i \in 1..Len(d) : DedupeKey(d[i]) = DedupeKey(x)
            THEN d ELSE Append(d, x)

\* int(x[0].get('popularity', 0) or 0): the integer part, 0 when missing
IntPopularity(p) == IF p = <<>> THEN 0 ELSE p[1] \div 10

\* lines 579-585: the sort key (-int(popularity), air_date) and its order
SortKey(x) == << 0 - IntPopularity(x.popularity), x.date.day >>
KeyLess(a, b) ==
    \/ SortKey(a)[1] < SortKey(b)[1]
    \/ SortKey(a)[1] = SortKey(b)[1] /\ SortKey(a)[2] < SortKey(b)[2]

\* sorted(): stable, an element goes behind the elements that are not
\* greater than it
RECURSIVE sorted(_)
sorted(q) ==
    IF q = <<>> THEN <<>>
    ELSE LET s == sorted(SubSeq(q, 1, Len(q) - 1))
             x == q[Len(q)]
             k == Cardinality({i \in 1..Len(s) : ~KeyLess(x, s[i])})
         IN SubSeq(s, 1, k) \o <<x>> \o SubSeq(s, k + 1, Len(s))

\* lines 572-609, up to the await of the reply
SeriesFinish(r) == [r EXCEPT !.stage = "send"]

\* for highlight in highlight_movies: ... await fetch_json (lines 472-476)
MoviesOuter(r) ==
    LET n == next(r.it, highlight_movies) IN
    CASE n.res = "changed" -> Raise(r, "RuntimeError")
      [] n.res = "stop" -> TickFinish(r)
      [] OTHER -> [r EXCEPT !.it = n.it, !.highlight = n.item,
                            !.stage = "M_search",
                            !.seen.movies = @ \cup {n.item}]

\* for highlight in highlight_titles: ... await fetch_json (lines 448-451)
SeriesOuter(r) ==
    LET n == next(r.it, highlight_titles) IN
    CASE n.res = "changed" -> Raise(r, "RuntimeError")
      [] n.res = "stop" ->
            IF r.kind = "tick"
            THEN MoviesOuter([r EXCEPT !.it = iter(highlight_movies),
                                       !.highlight = NoStr, !.data = <<>>,
                                       !.idx = 0])
            ELSE SeriesFinish([r EXCEPT !.highlight = NoStr, !.data = <<>>,
                                        !.idx = 0])
      [] OTHER -> [r EXCEPT !.it = n.it, !.highlight = n.item,
                            !.stage = "S_search", !.data = <<>>, !.idx = 0,
                            !.seen.series = @ \cup {n.item}]

\* for show in data.get('results', []): ... await fetch_json (lines 452-455)
SeriesInner(r) ==
    IF r.idx > Len(r.data) THEN SeriesOuter(r)
    ELSE [r EXCEPT !.stage = "S_details"]

\* lines 456-469 (tick) and 556-571 (series), for the details just fetched
ProcessDetails(r) ==
    LET id == r.data[r.idx]
        r1 == [r EXCEPT !.idx = @ + 1] IN
    IF ~NameMatches(TVDetails[id].name, r.highlight) THEN r1
    ELSE IF r.kind = "tick"
         THEN [r1 EXCEPT !.upcoming_series =
                    @ \o TickSeasons(id, r.highlight, r.now, r.cutoff)]
         ELSE [r1 EXCEPT !.shows_to_display =
                    @ \o SeriesSeasons(id, r.highlight, r.now, r.cutoff)]

\* ---------------------------------------------------------------- startup
InitFrom(F) ==
    /\ phase = "boot"
    /\ today = 0
    /\ file \in F
    /\ highlight_titles = SeedSeries
    /\ highlight_movies = SeedMovies
    /\ favourite_series = {}
    /\ favourite_movies = {}
    /\ jobs = [c \in Chats |-> <<>>]
    /\ conv = [k \in Chats \X AllUsers |-> "END"]
    /\ user_addseries_context = [c \in Chats |-> <<>>]
    /\ conv_movie = [k \in Chats \X AllUsers |-> "END"]
    /\ user_addmovie_context = [c \in Chats |-> <<>>]
    /\ reply = NoReply
    /\ run = Idle

Init == InitFrom(Files)
InitStore == InitFrom(StoreFiles)

\* load_highlight_lists (lines 331-341) on the file f: four sets, four
\* times None when there is no file, an exception when json.load or
\* data.get fails
LoadFrom_lenient(f) ==
    [raises |-> FALSE, loaded |-> f.exists /\ f.json = "object",
     series |-> Get(f.series), movies |-> Get(f.movies),
     favourite_series |-> Get(f.favourite_series),
     favourite_movies |-> Get(f.favourite_movies)]
LoadFrom(f) ==
    [raises |-> f.exists /\ f.json # "object",
     loaded |-> f.exists /\ f.json = "object",
     series |-> Get(f.series), movies |-> Get(f.movies),
     favourite_series |-> Get(f.favourite_series),
     favourite_movies |-> Get(f.favourite_movies)]

load_highlight_lists == LoadFrom(file)

\* __main__, lines 982-994: the four globals are rebound to what was
\* loaded; an exception of the load ends the process at lines 1040-1044
Startup ==
    /\ phase = "boot"
    /\ LET l == load_highlight_lists IN
        IF l.raises
        THEN /\ phase' = "exited"
             /\ UNCHANGED store
        ELSE /\ phase' = "running"
             /\ highlight_titles' =
                    IF l.loaded THEN l.series ELSE highlight_titles
             /\ highlight_movies' =
                    IF l.loaded THEN l.movies ELSE highlight_movies
             /\ favourite_series' =
                    IF l.loaded THEN l.favourite_series ELSE favourite_series
             /\ favourite_movies' =
                    IF l.loaded THEN l.favourite_movies ELSE favourite_movies
    /\ UNCHANGED <<today, file, jobs, conv, movie_flow,
                   user_addseries_context, reply, run>>

\* the file after save_highlight_lists() wrote the four sets s
save_highlight_lists_tracked(ht, hm, fs, fm) == Doc(ht, hm, {}, {})
save_highlight_lists_not(ht, hm, fs, fm) == Absent
save_highlight_lists(ht, hm, fs, fm) == Doc(ht, hm, fs, fm)

\* the clock passes midnight: every job is a day closer to its next run
AdvanceDay ==
    /\ phase = "running"
    /\ today < MaxDay
    /\ today' = today + 1
    /\ jobs' = [c \in Chats |->
                  [i \in 1..Len(jobs[c]) |->
                      [wait |-> IF jobs[c][i].wait > 0
                                THEN jobs[c][i].wait - 1 ELSE 0]]]
    /\ UNCHANGED <<phase, file, store, conv, movie_flow, user_addseries_context,
                   reply, run>>

\* updates are handled one at a time: a handler starts when none is in flight
HandlerFree == phase = "running" /\ reply = NoReply

\* ---------------------------------------------------- notification jobs
\* A job is the days left until its next run; the queue keeps, under each
\* name (the chat id), the jobs scheduled with that name and not removed.
get_jobs_by_name(q, c) == q[c]

\* job.schedule_removal() for every job in current_jobs
schedule_removal_forgets(q, c) == q
schedule_removal_all(q, c) == [d \in Chats |-> <<>>]
schedule_removal(q, c) == [q EXCEPT ![c] = <<>>]

\* job_queue.run_repeating(notify_releases, interval, first=0, chat_id, name)
run_repeating_later(q, c) == [q EXCEPT ![c] = Append(@, [wait |-> NOTIFY_INTERVAL])]
run_repeating(q, c) == [q EXCEPT ![c] = Append(@, [wait |-> 0])]

notifyon(c, u) ==
    /\ HandlerFree
    /\ jobs' = run_repeating(schedule_removal(jobs, c), c)
    /\ reply' = [Reply("notifyon", c, u, "Daily release notifications enabled")
                    EXCEPT !.removed = Len(get_jobs_by_name(jobs, c))]
    /\ UNCHANGED <<phase, today, file, store, conv, movie_flow, user_addseries_context, run>>

notifyoff(c, u) ==
    /\ HandlerFree
    /\ jobs' = schedule_removal(jobs, c)
    /\ reply' = [Reply("notifyoff", c, u, "Daily release notifications disabled")
                    EXCEPT !.removed = Len(get_jobs_by_name(jobs, c))]
    /\ UNCHANGED <<phase, today, file, store, conv, movie_flow, user_addseries_context, run>>

\* ------------------------------------------------------ tracked-set handlers
\* what a user may type after /removeseries and /removemovie
RemoveArgs == {Str("you", TRUE), Str("severance", FALSE),
               Str("dune", FALSE), Str("arcane", FALSE)}

removeseries(c, u, arg) ==
    /\ HandlerFree
    /\ LET title == lower(arg) IN
        IF title \notin highlight_titles
        THEN /\ reply' = Reply("removeseries", c, u, "is not in your highlight series list")
             /\ UNCHANGED <<highlight_titles, file>>
        ELSE /\ highlight_titles' = highlight_titles \ {title}
             /\ file' = save_highlight_lists(highlight_titles', highlight_movies,
                                             favourite_series, favourite_movies)
             /\ reply' = Reply("removeseries", c, u, "Removed from your highlight series list")
    /\ UNCHANGED <<phase, today, highlight_movies, favourite_series,
                   favourite_movies, jobs, conv, movie_flow, user_addseries_context, run>>

removemovie(c, u, arg) ==
    /\ HandlerFree
    /\ LET title == lower(arg) IN
        IF title \notin highlight_movies
        THEN /\ reply' = Reply("removemovie", c, u, "is not in your highlight movies list")
             /\ UNCHANGED <<highlight_movies, file>>
        ELSE /\ highlight_movies' = highlight_movies \ {title}
             /\ file' = save_highlight_lists(highlight_titles, highlight_movies',
                                             favourite_series, favourite_movies)
             /\ reply' = Reply("removemovie", c, u, "Removed from your highlight movies list")
    /\ UNCHANGED <<phase, today, highlight_titles, favourite_series,
                   favourite_movies, jobs, conv, movie_flow, user_addseries_context, run>>

\* ----------------------------------------------------- selection flow
ADD_MAX_RESULTS == 5

Take_all(q, n) == q
Take(q, n) == SubSeq(q, 1, IF Len(q) < n THEN Len(q) ELSE n)

\* /addseries [title], step 1: the search returned resp
addseries(c, u, resp) ==
    /\ HandlerFree
    /\ conv[<<c, u>>] = "END"
    /\ LET results == Take(resp, ADD_MAX_RESULTS) IN
        IF results = <<>>
        THEN /\ reply' = Reply("addseries", c, u, "No matching series found.")
             /\ UNCHANGED user_addseries_context
        ELSE /\ user_addseries_context' =
                    [user_addseries_context EXCEPT ![c] = results]
             /\ reply' = Reply("addseries", c, u, "Please choose the correct series")
    /\ UNCHANGED <<phase, today, file, store, jobs, conv, movie_flow, run>>

\* a text reply: not an integer, or the integer val
Texts == {[isint |-> FALSE, val |-> 0]}
         \cup {[isint |-> TRUE, val |-> k] : k \in 0..(MaxResults + 1)}

\* step 2, up to the await of the reply
addseries_choice(c, u, text) ==
    /\ HandlerFree
    /\ conv[<<c, u>>] = "CHOICE"
    /\ LET results == user_addseries_context[c] IN
        IF results = <<>>
        THEN /\ reply' = Reply("addseries_choice", c, u, "No series selection in progress.")
             /\ UNCHANGED <<highlight_titles, file>>
        ELSE IF ~text.isint \/ ~(1 <= text.val /\ text.val <= Len(results))
        THEN /\ reply' = Reply("addseries_choice", c, u, "Invalid choice.")
             /\ UNCHANGED <<highlight_titles, file>>
        ELSE LET show == TVDetails[results[text.val]]
                 entry == Entry(show.name, show.year) IN
             /\ highlight_titles' = highlight_titles \cup {lower(entry)}
             /\ file' = save_highlight_lists(highlight_titles', highlight_movies,
                                             favourite_series, favourite_movies)
             /\ reply' = [Reply("addseries_choice", c, u,
                                "Added to your highlight series list")
                             EXCEPT !.added = <<lower(entry)>>]
    /\ UNCHANGED <<phase, today, highlight_movies, favourite_series,
                   favourite_movies, jobs, conv, movie_flow, user_addseries_context, run>>

\* ------------------------------------------------------------- /series
series(c, u) ==
    /\ HandlerFree
    /\ run = Idle
    /\ reply' = Reply("series", c, u, "Fetching")
    /\ run' = SeriesOuter([Idle EXCEPT
                  !.kind = "series", !.chat = c, !.now = today,
                  !.cutoff = today + SERIES_LOOKAHEAD_DAYS,
                  !.it = iter(highlight_titles),
                  !.start = [series |-> highlight_titles, movies |-> {}]])
    /\ UNCHANGED <<phase, today, file, store, jobs, conv, movie_flow, user_addseries_context>>

\* lines 572-609: the listing replied, or "No new or returning seasons"
series_reply ==
    /\ run.kind = "series"
    /\ run.stage = "send"
    /\ run' = [run EXCEPT !.stage = "done",
                          !.sent = << sorted(Dedupe(run.shows_to_display)) >>]
    /\ reply' = [reply EXCEPT !.text =
                    IF run.shows_to_display = <<>>
                    THEN "No new or returning seasons found"
                    ELSE "New & Returning Seasons"]
    /\ UNCHANGED <<phase, today, file, store, jobs, conv, movie_flow, user_addseries_context>>

\* lines 610-612: except Exception
series_except ==
    /\ run.kind = "series"
    /\ run.stage = "failed"
    /\ run' = [run EXCEPT !.stage = "done"]
    /\ reply' = [reply EXCEPT !.text = "Sorry, an error occurred"]
    /\ UNCHANGED <<phase, today, file, store, jobs, conv, movie_flow, user_addseries_context>>

Replied_ends ==
    /\ reply # NoReply
    /\ reply' = NoReply
    /\ conv' = [conv EXCEPT ![<<reply.chat, reply.user>>] =
                    IF reply.text = "Please choose the correct series" THEN "CHOICE"
                    ELSE IF reply.handler \in {"addseries", "addseries_choice"}
                    THEN "END" ELSE @]
    /\ conv_movie' = [conv_movie EXCEPT ![<<reply.chat, reply.user>>] =
                    IF reply.text = "Please choose the correct movie" THEN "CHOICE"
                    ELSE IF reply.handler \in {"addmovie", "addmovie_choice"}
                    THEN "END" ELSE @]
    /\ UNCHANGED <<phase, today, file, store, jobs, user_addseries_context,
                   user_addmovie_context, run>>

\* the reply_text a handler awaited returns and the handler ends
Replied ==
    /\ reply # NoReply
    /\ reply.handler = "series" => run.stage = "done"
    /\ reply' = NoReply
    /\ run' = IF reply.handler = "series" THEN Idle ELSE run
    /\ conv' =
        IF reply.handler = "addseries"
        THEN [conv EXCEPT ![<<reply.chat, reply.user>>] =
                 IF reply.text = "Please choose the correct series"
                 THEN "CHOICE" ELSE "END"]
        ELSE IF reply.handler = "addseries_choice" /\ reply.text # "Invalid choice."
        THEN [conv EXCEPT ![<<reply.chat, reply.user>>] = "END"]
        ELSE conv
    /\ user_addseries_context' =
        IF reply.handler = "addseries_choice"
           /\ reply.text = "Added to your highlight series list"
        THEN [user_addseries_context EXCEPT ![reply.chat] = <<>>]
        ELSE user_addseries_context
    /\ conv_movie' =
        IF reply.handler = "addmovie"
        THEN [conv_movie EXCEPT ![<<reply.chat, reply.user>>] =
                 IF reply.text = "Please choose the correct movie"
                 THEN "CHOICE" ELSE "END"]
        ELSE IF reply.handler = "addmovie_choice" /\ reply.text # "Invalid choice."
        THEN [conv_movie EXCEPT ![<<reply.chat, reply.user>>] = "END"]
        ELSE conv_movie
    /\ user_addmovie_context' =
        IF reply.handler = "addmovie_choice"
           /\ reply.text = "Added to your highlight movies list"
        THEN [user_addmovie_context EXCEPT ![reply.chat] = <<>>]
        ELSE user_addmovie_context
    /\ UNCHANGED <<phase, today, file, store, jobs>>

\* ------------------------------------------------ /addmovie, second step
\* /addmovie [title] (the definition of lines 676-693 is the one bound when
\* the conversation handler is built): the search returned resp
addmovie(c, u, resp) ==
    /\ HandlerFree
    /\ conv_movie[<<c, u>>] = "END"
    /\ LET results == Take(resp, ADD_MAX_RESULTS) IN
        IF results = <<>>
        THEN /\ reply' = Reply("addmovie", c, u, "No matching movies found.")
             /\ UNCHANGED user_addmovie_context
        ELSE /\ user_addmovie_context' =
                    [user_addmovie_context EXCEPT ![c] = results]
             /\ reply' = Reply("addmovie", c, u, "Please choose the correct movie")
    /\ UNCHANGED <<phase, today, file, store, jobs, conv,
                   user_addseries_context, conv_movie, run>>

\* a text reply reaches addmovie_conv when addseries_conv, added to the
\* application before it, is not waiting for one
addmovie_choice(c, u, text) ==
    /\ HandlerFree
    /\ conv[<<c, u>>] # "CHOICE"
    /\ conv_movie[<<c, u>>] = "CHOICE"
    /\ LET results == user_addmovie_context[c] IN
        IF results = <<>>
        THEN /\ reply' = Reply("addmovie_choice", c, u, "No movie selection in progress.")
             /\ UNCHANGED <<highlight_movies, file>>
        ELSE IF ~text.isint \/ ~(1 <= text.val /\ text.val <= Len(results))
        THEN /\ reply' = Reply("addmovie_choice", c, u, "Invalid choice.")
             /\ UNCHANGED <<highlight_movies, file>>
        ELSE LET movie == MovieRecords[results[text.val]]
                 entry == Entry(movie.title, movie.year) IN
             /\ highlight_movies' = highlight_movies \cup {lower(entry)}
             /\ file' = save_highlight_lists(highlight_titles, highlight_movies',
                                             favourite_series, favourite_movies)
             /\ reply' = [Reply("addmovie_choice", c, u,
                                "Added to your highlight movies list")
                             EXCEPT !.added = <<lower(entry)>>]
    /\ UNCHANGED <<phase, today, highlight_titles, favourite_series,
                   favourite_movies, jobs, conv, movie_flow,
                   user_addseries_context, run>>

\* ------------------------------------------------------------ favourites
\* the entries of S that equal name when both are lower-cased
Matching_all(S, name) == S
Matching(S, name) == {x \in S : lower(x) = lower(name)}

\* what a user may type after /addfaveseries and /addfavemovie, split at
\* '+' and trimmed (<<>>: nothing but '+' and blanks)
FaveArgs == { <<>>, <<Str("dune", TRUE)>>,
              <<Str("dune", FALSE), Str("dune", TRUE)>> }

\* lines 888-893: every entry goes to the set unless the set has it, in
\* whatever case
AddEach_all(S, q) ==
    [set |-> S \cup {q[i] : i \in 1..Len(q)}, added |-> q, already |-> <<>>]
RECURSIVE AddEach(_, _)
AddEach(S, q) ==
    IF q = <<>> THEN [set |-> S, added |-> <<>>, already |-> <<>>]
    ELSE LET r == AddEach(S, SubSeq(q, 1, Len(q) - 1))
             entry == q[Len(q)]
         IN IF Matching(r.set, entry) # {}
            THEN [r EXCEPT !.already = Append(@, entry)]
            ELSE [r EXCEPT !.set = @ \cup {entry},
                           !.added = Append(@, entry)]

\* lines 895-902: the message
FaveText(r) ==
    IF r.added # <<>> /\ r.already # <<>> THEN "Added and already in your list"
    ELSE IF r.added # <<>> THEN "Added to your favourite list"
    ELSE IF r.already # <<>> THEN "Already in your favourite list"
    ELSE "No valid names provided."

addfaveseries(c, u, q) ==
    /\ HandlerFree
    /\ LET r == AddEach(favourite_series, q) IN
        /\ favourite_series' = r.set
        /\ file' = save_highlight_lists(highlight_titles, highlight_movies,
                                        favourite_series', favourite_movies)
        /\ reply' = [Reply("addfaveseries", c, u, FaveText(r))
                        EXCEPT !.added = r.added, !.already = r.already]
    /\ UNCHANGED <<phase, today, highlight_titles, highlight_movies,
                   favourite_movies, jobs, conv, movie_flow,
                   user_addseries_context, run>>

addfavemovie(c, u, q) ==
    /\ HandlerFree
    /\ LET r == AddEach(favourite_movies, q) IN
        /\ favourite_movies' = r.set
        /\ file' = save_highlight_lists(highlight_titles, highlight_movies,
                                        favourite_series, favourite_movies')
        /\ reply' = [Reply("addfavemovie", c, u, FaveText(r))
                        EXCEPT !.added = r.added, !.already = r.already]
    /\ UNCHANGED <<phase, today, highlight_titles, highlight_movies,
                   favourite_series, jobs, conv, movie_flow,
                   user_addseries_context, run>>

\* lines 936-947: the first entry the iteration meets that matches is
\* removed (which one that is, the order of the set decides)
removefaveseries(c, u, name) ==
    /\ HandlerFree
    /\ IF Matching(favourite_series, name) = {}
       THEN /\ reply' = Reply("removefaveseries", c, u,
                              "is not in your favourite series list")
            /\ UNCHANGED <<favourite_series, file>>
       ELSE \E found \in Matching(favourite_series, name) :
            /\ favourite_series' = favourite_series \ {found}
            /\ file' = save_highlight_lists(highlight_titles, highlight_movies,
                                            favourite_series', favourite_movies)
            /\ reply' = Reply("removefaveseries", c, u,
                              "Removed from your favourite series list")
    /\ UNCHANGED <<phase, today, highlight_titles, highlight_movies,
                   favourite_movies, jobs, conv, movie_flow,
                   user_addseries_context, run>>

removefavemovie(c, u, name) ==
    /\ HandlerFree
    /\ IF Matching(favourite_movies, name) = {}
       THEN /\ reply' = Reply("removefavemovie", c, u,
                              "is not in your favourite movies list")
            /\ UNCHANGED <<favourite_movies, file>>
       ELSE \E found \in Matching(favourite_movies, name) :
            /\ favourite_movies' = favourite_movies \ {found}
            /\ file' = save_highlight_lists(highlight_titles, highlight_movies,
                                            favourite_series, favourite_movies')
            /\ reply' = Reply("removefavemovie", c, u,
                              "Removed from your favourite movies list")
    /\ UNCHANGED <<phase, today, highlight_titles, highlight_movies,
                   favourite_series, jobs, conv, movie_flow,
                   user_addseries_context, run>>

\* ------------------------------------------------------ the process stops
\* everything in memory is lost: the module's globals are the seeds again
\* when it is started anew, the job queue is empty, no handler is in flight
Stopped ==
    /\ phase' = "boot"
    /\ highlight_titles' = SeedSeries
    /\ highlight_movies' = SeedMovies
    /\ favourite_series' = {}
    /\ favourite_movies' = {}
    /\ jobs' = [c \in Chats |-> <<>>]
    /\ conv' = [k \in Chats \X AllUsers |-> "END"]
    /\ user_addseries_context' = [c \in Chats |-> <<>>]
    /\ conv_movie' = [k \in Chats \X AllUsers |-> "END"]
    /\ user_addmovie_context' = [c \in Chats |-> <<>>]
    /\ reply' = NoReply
    /\ run' = Idle
    /\ UNCHANGED today

\* the process is stopped (or has exited) and started again
Stop ==
    /\ phase \in {"running", "exited"}
    /\ Stopped
    /\ UNCHANGED file

\* the process is stopped inside save_highlight_lists of a handler (lines
\* 343-350): open(..., "w") has emptied the file and json.dump has not
\* written all of the document yet
save_interrupted ==
    /\ HandlerFree
    /\ file' = Truncated
    /\ Stopped

\* if not context.args: reply the usage line and return
NeedArgs == {"addseries", "removeseries", "removemovie"}
usage(c, u, h) ==
    /\ HandlerFree
    /\ h = "addseries" => conv[<<c, u>>] = "END"
    /\ reply' = Reply(h, c, u, "Usage")
    /\ UNCHANGED <<phase, today, file, store, jobs, conv, movie_flow,
                   user_addseries_context, run>>

\* ------------------------------------------------------ the notification tick
\* the scheduler fires the i-th job named c: notify_releases up to its
\* first await
notify_releases(c, i) ==
    /\ phase = "running"
    /\ run = Idle
    /\ i \in 1..Len(jobs[c])
    /\ jobs[c][i].wait = 0
    /\ jobs' = [jobs EXCEPT ![c][i].wait = NOTIFY_INTERVAL]
    /\ run' = SeriesOuter([Idle EXCEPT
                  !.kind = "tick", !.chat = c, !.now = today,
                  !.cutoff = today + NOTIFY_LOOKAHEAD_DAYS,
                  !.it = iter(highlight_titles),
                  !.start = [series |-> highlight_titles,
                             movies |-> highlight_movies]])
    /\ UNCHANGED <<phase, today, file, store, conv, movie_flow, user_addseries_context, reply>>

\* await context.bot.send_message(...) of lines 490-496 returns
send_message ==
    /\ run.kind = "tick"
    /\ run.stage = "send"
    /\ run' = [run EXCEPT !.stage = "done",
                          !.sent = Append(@, [series |-> run.upcoming_series,
                                              movies |-> run.upcoming_movies])]
    /\ UNCHANGED <<phase, today, file, store, jobs, conv, movie_flow,
                   user_addseries_context, reply>>

tick_ends_drops_job ==
    /\ run.kind = "tick"
    /\ run.stage \in {"done", "failed"}
    /\ run' = Idle
    /\ jobs' = IF run.stage = "failed" THEN [jobs EXCEPT ![run.chat] = <<>>]
                                       ELSE jobs
    /\ UNCHANGED <<phase, today, file, store, conv, movie_flow,
                   user_addseries_context, reply>>

\* the job's coroutine has ended (returned, or raised into the job runner)
tick_ends ==
    /\ run.kind = "tick"
    /\ run.stage \in {"done", "failed"}
    /\ run' = Idle
    /\ UNCHANGED <<phase, today, file, store, jobs, conv, movie_flow,
                   user_addseries_context, reply>>

\* ------------------------------------------------------- provider answers
\* fetch_json of a search/tv returns resp
search_tv_returns(resp) ==
    /\ run.stage = "S_search"
    /\ run' = SeriesInner([run EXCEPT !.data = resp, !.idx = 1])
    /\ UNCHANGED <<phase, today, file, store, jobs, conv, movie_flow,
                   user_addseries_context, reply>>

\* fetch_json of tv/{id} returns the details
details_returns ==
    /\ run.stage = "S_details"
    /\ run' = SeriesInner(ProcessDetails(run))
    /\ UNCHANGED <<phase, today, file, store, jobs, conv, movie_flow,
                   user_addseries_context, reply>>

\* fetch_json of a search/movie returns resp
search_movie_returns(resp) ==
    /\ run.stage = "M_search"
    /\ run' = MoviesOuter([run EXCEPT !.upcoming_movies =
                  @ \o MovieLines(resp, run.highlight, run.now, run.cutoff)])
    /\ UNCHANGED <<phase, today, file, store, jobs, conv, movie_flow,
                   user_addseries_context, reply>>

\* fetch_json raises (non-2xx, timeout, malformed body)
fetch_json_raises ==
    /\ run.stage \in {"S_search", "S_details", "M_search"}
    /\ run' = Raise(run, "provider")
    /\ UNCHANGED <<phase, today, file, store, jobs, conv, movie_flow,
                   user_addseries_context, reply>>

\* --------------------------------------------------------- specification
\* The scheduler, the handlers that remove tracked titles, and the ticks.
\* The provider answers a search with one of a few lists.  A handler that
\* neither reads nor writes what a run reads (notifyon, a usage reply) and
\* the clock are taken between runs: they commute with the steps of a run.
FewTVResponses == {<<>>, <<1>>, <<1, 2>>}
FewMovieResponses == {<<>>, <<1>>}

Quiet == run = Idle

Next ==
    \/ Startup
    \/ Quiet /\ AdvanceDay
    \/ Quiet /\ \E c \in Chats, u \in Users : notifyon(c, u)
    \/ \E c \in Chats, u \in Users : notifyoff(c, u)
    \/ \E c \in Chats, u \in Users, a \in RemoveArgs : removeseries(c, u, a)
    \/ \E c \in Chats, u \in Users, a \in RemoveArgs : removemovie(c, u, a)
    \/ Quiet /\ \E c \in Chats, u \in Users, h \in NeedArgs : usage(c, u, h)
    \/ Replied
    \/ \E c \in Chats : \E i \in 1..Len(jobs[c]) : notify_releases(c, i)
    \/ send_message
    \/ tick_ends
    \/ \E r \in FewTVResponses : search_tv_returns(r)
    \/ details_returns
    \/ \E r \in FewMovieResponses : search_movie_returns(r)
    \/ fetch_json_raises

Spec == Init /\ [][Next]_vars

\* The matching runs against every provider answer: the bot started from
\* any of its files, with notifications enabled and /series asked.
NextMatch ==
    \/ Startup
    \/ AdvanceDay
    \/ \E c \in Chats, u \in Users : notifyon(c, u)
    \/ \E c \in Chats, u \in Users : series(c, u)
    \/ series_reply
    \/ series_except
    \/ Replied
    \/ \E c \in Chats : \E i \in 1..Len(jobs[c]) : notify_releases(c, i)
    \/ send_message
    \/ tick_ends
    \/ \E r \in TVResponses : search_tv_returns(r)
    \/ details_returns
    \/ \E r \in MovieResponses : search_movie_returns(r)
    \/ fetch_json_raises

SpecMatch == Init /\ [][NextMatch]_vars

\* The selection flow followed by the runs: a title is added through
\* /addseries and its choice, then ticks and /series look for it.
NextTrack ==
    \/ Startup
    \/ Quiet /\ \E c \in Chats, u \in Users : notifyon(c, u)
    \/ Quiet /\ \E c \in Chats, u \in Users, r \in FewTVResponses : addseries(c, u, r)
    \/ Quiet /\ \E c \in Chats, u \in Users, t \in Texts : addseries_choice(c, u, t)
    \/ Quiet /\ \E c \in Chats, u \in Users : series(c, u)
    \/ series_reply
    \/ series_except
    \/ Replied
    \/ \E c \in Chats : \E i \in 1..Len(jobs[c]) : notify_releases(c, i)
    \/ send_message
    \/ tick_ends
    \/ \E r \in FewTVResponses : search_tv_returns(r)
    \/ details_returns
    \/ \E r \in FewMovieResponses : search_movie_returns(r)
    \/ fetch_json_raises

SpecTrack == Init /\ [][NextTrack]_vars

\* ================================================================ claims
TrackedNow == [series |-> highlight_titles, movies |-> highlight_movies]
TickOver == run.kind = "tick" /\ run.stage \in {"done", "failed"}
InRun == run.kind \in {"tick", "series"}
Horizon == IF run.kind = "tick" THEN NOTIFY_LOOKAHEAD_DAYS
                                ELSE SERIES_LOOKAHEAD_DAYS
\* the show whose details the run looked at last, while it is still
\* looking through the same search results
LastLooked == run.data[run.idx - 1]
HasLooked == InRun /\ run.stage = "S_details" /\ run.idx >= 2

\* The store: every handler that adds to or removes from the four sets,
\* the process stopping and starting again, and files of all kinds.
StoreChats == {41}
StoreTVResponses == {<<>>, <<1>>}

NextStore ==
    \/ Startup
    \/ Stop
    \/ save_interrupted
    \/ \E c \in StoreChats, u \in Users, r \in StoreTVResponses :
          addseries(c, u, r)
    \/ \E c \in StoreChats, u \in Users, t \in Texts : addseries_choice(c, u, t)
    \/ \E c \in StoreChats, u \in Users, r \in FewMovieResponses :
          addmovie(c, u, r)
    \/ \E c \in StoreChats, u \in Users, t \in Texts : addmovie_choice(c, u, t)
    \/ \E c \in StoreChats, u \in Users, q \in FaveArgs : addfaveseries(c, u, q)
    \/ \E c \in StoreChats, u \in Users, q \in FaveArgs : addfavemovie(c, u, q)
    \/ \E c \in StoreChats, u \in Users, a \in RemoveArgs :
          removefaveseries(c, u, a)
    \/ \E c \in StoreChats, u \in Users, a \in RemoveArgs :
          removefavemovie(c, u, a)
    \/ \E c \in StoreChats, u \in Users, a \in RemoveArgs : removeseries(c, u, a)
    \/ \E c \in StoreChats, u \in Users, a \in RemoveArgs : removemovie(c, u, a)
    \/ Replied

SpecStore == InitStore /\ [][NextStore]_vars

\* the reply_text a handler awaited raises (the message cannot be sent):
\* the exception leaves the handler, nothing after the await runs, and the
\* conversation handler keeps the state the conversation was in.  For
\* /series the awaited reply is inside its try: the except branch replies
\* once more and the handler ends whether that reply is sent or not.
reply_text_raises ==
    /\ reply # NoReply
    /\ reply.handler = "series" => run.stage = "done"
    /\ reply' = NoReply
    /\ run' = IF reply.handler = "series" THEN Idle ELSE run
    /\ UNCHANGED <<phase, today, file, store, jobs, conv, movie_flow,
                   user_addseries_context>>

\* The selection flows: both steps of /addseries and /addmovie, searches
\* that return nothing, one candidate, or more than the five that are
\* kept, and replies that are sent or fail.
FlowTVResponses == {<<>>, <<1>>, <<1, 2, 1, 2, 1, 2>>}
FlowMovieResponses == {<<>>, <<1>>, <<3, 1, 3, 1, 3, 1>>}

NextFlow ==
    \/ Startup
    \/ \E c \in Chats, u \in Users, r \in FlowTVResponses : addseries(c, u, r)
    \/ \E c \in Chats, u \in Users, t \in Texts : addseries_choice(c, u, t)
    \/ \E c \in Chats, u \in Users, r \in FlowMovieResponses : addmovie(c, u, r)
    \/ \E c \in Chats, u \in Users, t \in Texts : addmovie_choice(c, u, t)
    \/ Replied
    \/ reply_text_raises

SpecFlow == Init /\ [][NextFlow]_vars

\* A chat with two users: each has a conversation of their own with the
\* bot, both start and answer selections, while notifications are turned
\* on and off in this chat and the other.
SharedChats == {41}
SharedTVResponses == {<<>>, <<1>>, <<3>>}

NextShared ==
    \/ Startup
    \/ \E c \in SharedChats, u \in AllUsers, r \in SharedTVResponses :
          addseries(c, u, r)
    \/ \E c \in SharedChats, u \in AllUsers, t \in Texts :
          addseries_choice(c, u, t)
    \/ \E c \in Chats, u \in Users : notifyon(c, u)
    \/ \E c \in Chats, u \in Users : notifyoff(c, u)
    \/ Replied
    \/ reply_text_raises

SpecShared == Init /\ [][NextShared]_vars

\* ------------------------------------------- the upcoming-movies listing
\* search_tmdb(media_type="movie", max_results=m) without a query (lines
\* 74-76, 89-110).  An item of a page is its release_date field; the
\* locals page, results, now and cutoff are kept in the run.
MAX_PAGES == 5
UPCOMING_DAYS == 30
DEFAULT_MAX_RESULTS == 50

\* for item in page_results (lines 96-106), from the i-th item on: an item
\* whose date is set, parses and is in the window is appended, and the
\* loop is left once max_results items are collected
RECURSIVE PageItems_all(_, _, _, _, _, _)
PageItems_all(results, p, i, now, cutoff, m) ==
    IF i > Len(p) THEN results
    ELSE PageItems_all(Append(results, p[i]), p, i + 1, now, cutoff, m)
RECURSIVE PageItems(_, _, _, _, _, _)
PageItems(results, p, i, now, cutoff, m) ==
    IF i > Len(p) THEN results
    ELSE IF TruthyDate(p[i]) /\ InWindow(p[i], now, cutoff)
    THEN LET more == Append(results, p[i]) IN
         IF Len(more) >= m THEN more
         ELSE PageItems(more, p, i + 1, now, cutoff, m)
    ELSE PageItems(results, p, i + 1, now, cutoff, m)

\* while len(results) < max_results and page <= max_pages (line 91), and
\* return results[:max_results] (line 110) when it is over
UpcomingLoop(r) ==
    IF Len(r.results) < r.max_results /\ r.page <= MAX_PAGES
    THEN [r EXCEPT !.stage = "U_fetch"]
    ELSE [r EXCEPT !.stage = "U_return",
                   !.results = Take(r.results, r.max_results)]

\* the call, up to the await of the first page
search_tmdb(m) ==
    /\ phase = "running"
    /\ run = Idle
    /\ run' = UpcomingLoop([Idle EXCEPT
                  !.kind = "upcoming", !.now = today,
                  !.cutoff = today + UPCOMING_DAYS,
                  !.max_results = m, !.page = 1])
    /\ UNCHANGED <<phase, today, file, store, jobs, conv, movie_flow,
                   user_addseries_context, reply>>

\* fetch_json of movie/upcoming returns the page p (lines 93-109)
upcoming_page(p) ==
    /\ run.stage = "U_fetch"
    /\ LET r == [run EXCEPT !.results = PageItems(run.results, p, 1, run.now,
                                                  run.cutoff, run.max_results)]
       IN run' = IF p = <<>>
                 THEN [r EXCEPT !.stage = "U_return",
                                !.results = Take(r.results, r.max_results)]
                 ELSE UpcomingLoop([r EXCEPT !.page = @ + 1])
    /\ UNCHANGED <<phase, today, file, store, jobs, conv, movie_flow,
                   user_addseries_context, reply>>

\* fetch_json of movie/upcoming raises: the exception leaves search_tmdb
upcoming_raises ==
    /\ run.stage = "U_fetch"
    /\ run' = Raise(run, "provider")
    /\ UNCHANGED <<phase, today, file, store, jobs, conv, movie_flow,
                   user_addseries_context, reply>>

\* the caller has taken what search_tmdb returned or raised
search_tmdb_ends ==
    /\ run.kind = "upcoming"
    /\ run.stage \in {"U_return", "failed"}
    /\ run' = Idle
    /\ UNCHANGED <<phase, today, file, store, jobs, conv, movie_flow,
                   user_addseries_context, reply>>

\* The listing against pages of every kind of date: before today, in the
\* window, at and beyond its end, not a date, empty and missing; asked
\* for up to the default of 50 results or for a few.
UpcomingPages ==
    {<<>>, <<Ymd(1)>>, <<Ymd(UPCOMING_DAYS + 1), BadDate>>,
     <<NoDate, Ymd(UPCOMING_DAYS), Ymd(0)>>,
     <<Ymd(UPCOMING_DAYS + MaxDay + 1), EmptyDate>>}
UpcomingMax == (0..MaxResults) \cup {DEFAULT_MAX_RESULTS}

NextUpcoming ==
    \/ Startup
    \/ AdvanceDay
    \/ \E m \in UpcomingMax : search_tmdb(m)
    \/ \E p \in UpcomingPages : upcoming_page(p)
    \/ upcoming_raises
    \/ search_tmdb_ends

SpecUpcoming == Init /\ [][NextUpcoming]_vars

\* The scheduler under fairness.  An awaited call of a tick returns or
\* raises in the end (RunStep), days pass, and the scheduler starts a job
\* that is due:
\* the jobs are separate tasks, so a job of one chat is not held back by
\* the ticks of another however often they run (strong fairness, as a tick
\* starts here only between two others).
LiveTVResponses == {<<>>, <<1>>}
LiveMovieResponses == {<<>>, <<1>>}

RunStep ==
    \/ send_message
    \/ tick_ends
    \/ \E r \in LiveTVResponses : search_tv_returns(r)
    \/ details_returns
    \/ \E r \in LiveMovieResponses : search_movie_returns(r)
    \/ fetch_json_raises

Fires(c) == \E i \in 1..Len(jobs[c]) : notify_releases(c, i)

NextLive ==
    \/ Startup
    \/ AdvanceDay
    \/ \E c \in Chats, u \in Users : notifyon(c, u)
    \/ \E c \in Chats, u \in Users : notifyoff(c, u)
    \/ Replied
    \/ \E c \in Chats : Fires(c)
    \/ RunStep

SpecLive ==
    /\ Init /\ [][NextLive]_vars
    /\ WF_vars(RunStep)
    /\ WF_vars(AdvanceDay)
    /\ \A c \in Chats : SF_vars(Fires(c))

C2_NotifyOffCancels ==
    [][\A c \in Chats, u \in Users :
          notifyoff(c, u) =>
             /\ jobs'[c] = <<>>
             /\ jobs[c] = <<>> => jobs' = jobs
             /\ reply'.text = "Daily release notifications disabled"]_vars

\* notifyoff for a chat without a job, while another chat keeps its job
C2_NotifyOffNoJob ==
    /\ reply.handler = "notifyoff"
    /\ reply.removed = 0
    /\ jobs[reply.chat] = <<>>
    /\ \E d \in Chats \ {reply.chat} : Len(jobs[d]) = 1

\* C3: a tick that has ended delivered at most one message: exactly one
\* when its series or movie matching yielded a candidate, none when both
\* are empty.
C3_OneMessagePerTick ==
    TickOver =>
        /\ Len(run.sent) <= 1
        /\ (run.upcoming_series # <<>> \/ run.upcoming_movies # <<>>)
              => Len(run.sent) = 1
        /\ (run.upcoming_series = <<>> /\ run.upcoming_movies = <<>>)
              => run.sent = <<>>

\* C4: a provider call that fails for one title does not abort the run:
\* the run goes on to the remaining titles and delivers their candidates.
C4_FailedTitleIsSkipped ==
    (InRun /\ run.error = "provider") =>
        /\ run.stage # "failed"
        /\ run.stage = "done" => run.seen.series = run.start.series

\* C5: a tick that was not hit by a provider failure completes, having
\* iterated the whole tracked sets as they were when it began or as they
\* are now.
C5_TickSeesWholeSet ==
    (TickOver /\ run.error # "provider") =>
        /\ run.error = ""
        /\ run.seen = run.start \/ run.seen = TrackedNow

\* C6: every tick reports every release inside its window, however often
\* it was inside the window of earlier ticks: once a tick has looked at a
\* show whose name matches the tracked title, each season of the show with
\* a season number and an air date in [now, now + 3] has its line, and the
\* message the tick delivers consists of all the lines it collected.
C6_ReportedOnEveryTick ==
    /\ (HasLooked /\ run.kind = "tick"
        /\ lower(TVDetails[LastLooked].name) = run.highlight) =>
          \A k \in 1..Len(TVDetails[LastLooked].seasons) :
             LET s == TVDetails[LastLooked].seasons[k] IN
             (/\ s.season_number \notin {<<>>, <<0>>}
              /\ s.air_date.kind = "ymd"
              /\ run.now <= s.air_date.day
              /\ s.air_date.day <= run.now + NOTIFY_LOOKAHEAD_DAYS)
             => \E i \in 1..Len(run.upcoming_series) :
                   /\ run.upcoming_series[i].id = LastLooked
                   /\ run.upcoming_series[i].label = s.season_number[1]
                   /\ run.upcoming_series[i].date = s.air_date
    /\ (run.kind = "tick" /\ run.stage = "done"
        /\ (run.upcoming_series # <<>> \/ run.upcoming_movies # <<>>)) =>
          run.sent = << [series |-> run.upcoming_series,
                         movies |-> run.upcoming_movies] >>

\* a tick of a later day lists a season that was inside the window of the
\* day before as well
C6_ReportedAgain ==
    /\ HasLooked /\ run.kind = "tick"
    /\ run.now >= 1
    /\ \E i \in 1..Len(run.upcoming_series) :
          /\ run.upcoming_series[i].id = LastLooked
          /\ run.upcoming_series[i].date.day >= run.now
          /\ run.upcoming_series[i].date.day
                <= (run.now - 1) + NOTIFY_LOOKAHEAD_DAYS

\* C7: once a run has looked at the show that was selected in the flow
\* (the tracked title is the lower-cased "name (year)" of the show) and the
\* show has a season inside the window, the run has a candidate for it.
C7_SelectedTitleIsReported ==
    (/\ HasLooked
     /\ run.highlight = lower(Entry(TVDetails[LastLooked].name,
                                    TVDetails[LastLooked].year))
     /\ \E k \in 1..Len(TVDetails[LastLooked].seasons) :
            SeriesQualifies(TVDetails[LastLooked].seasons[k],
                            run.now, run.cutoff))
    => \E i \in 1..Len(run.upcoming_series \o run.shows_to_display) :
          /\ (run.upcoming_series \o run.shows_to_display)[i].id = LastLooked
          /\ (run.upcoming_series \o run.shows_to_display)[i].via = run.highlight

\* C8: every candidate of a run comes from a provider record whose
\* lower-cased name is one of the tracked titles.
C8_ExactNameOnly ==
    /\ \A i \in 1..Len(run.upcoming_series) :
          lower(TVDetails[run.upcoming_series[i].id].name) \in run.start.series
    /\ \A i \in 1..Len(run.shows_to_display) :
          lower(TVDetails[run.shows_to_display[i].id].name) \in run.start.series
    /\ \A i \in 1..Len(run.upcoming_movies) :
          lower(MovieRecords[run.upcoming_movies[i].id].title)
             \in run.start.movies

\* a tick has looked at "Severance: The Podcast" for the tracked title
\* "severance", its season inside the window, and has no candidate for it
C8_ResemblingRecordSkipped ==
    /\ run.kind = "tick" /\ run.stage = "S_details"
    /\ run.now = 0
    /\ run.highlight = Str("severance", FALSE)
    /\ run.data = <<2, 1>> /\ run.idx = 2
    /\ run.upcoming_series = <<>>

\* C9: every candidate of a run has a well-formed date d with
\* now <= d <= now + horizon (3 days for a tick, 120 for /series), and no
\* run ends in an error other than a failed provider call.
C9_DatesInWindow ==
    /\ \A i \in 1..Len(run.upcoming_series) :
          /\ run.upcoming_series[i].date.kind = "ymd"
          /\ run.now <= run.upcoming_series[i].date.day
          /\ run.upcoming_series[i].date.day <= run.now + Horizon
    /\ \A i \in 1..Len(run.upcoming_movies) :
          /\ run.upcoming_movies[i].date.kind = "ymd"
          /\ run.now <= run.upcoming_movies[i].date.day
          /\ run.upcoming_movies[i].date.day <= run.now + Horizon
    /\ \A i \in 1..Len(run.shows_to_display) :
          /\ run.shows_to_display[i].date.kind = "ymd"
          /\ run.now <= run.shows_to_display[i].date.day
          /\ run.shows_to_display[i].date.day <= run.now + Horizon
    /\ run.error \in {"", "provider"}

\* /series on day 1 has looked at "You": its seasons with a past date, a
\* date that does not parse, no date and no number gave nothing, the one
\* airing on day 5 is the candidate
C9_OnlyTheSeasonInWindow ==
    /\ run.kind = "series" /\ run.stage = "S_details"
    /\ run.now = 1
    /\ run.highlight = Str("you", FALSE)
    /\ run.data = <<3, 3>> /\ run.idx = 2
    /\ Len(run.shows_to_display) = 1
    /\ run.shows_to_display[1].id = 3
    /\ run.shows_to_display[1].date = Ymd(5)
    /\ run.error = ""

\* C10: a run has no two candidates for different seasons of one provider
\* show (found for the same tracked title).
C10_OneSeasonPerShow ==
    /\ \A i, j \in 1..Len(run.upcoming_series) :
          (/\ run.upcoming_series[i].id = run.upcoming_series[j].id
           /\ run.upcoming_series[i].via = run.upcoming_series[j].via)
          => run.upcoming_series[i].label = run.upcoming_series[j].label
    /\ \A i, j \in 1..Len(run.shows_to_display) :
          (/\ run.shows_to_display[i].id = run.shows_to_display[j].id
           /\ run.shows_to_display[i].via = run.shows_to_display[j].via)
          => run.shows_to_display[i].label = run.shows_to_display[j].label

\* C11: what a finished run delivered holds no two candidates with the same
\* (lower-cased name, release kind, date).
NoTwoAlike(q) ==
    \A i, j \in 1..Len(q) :
        (/\ lower(q[i].name) = lower(q[j].name)
         /\ q[i].label = q[j].label
         /\ q[i].date = q[j].date) => i = j

C11_NoDuplicateCandidates ==
    (InRun /\ run.stage = "done" /\ run.sent # <<>>) =>
        IF run.kind = "tick"
        THEN NoTwoAlike(run.sent[1].series) /\ NoTwoAlike(run.sent[1].movies)
        ELSE NoTwoAlike(run.sent[1])

\* C12: in the listing of /series no candidate stands before one of higher
\* popularity (a missing popularity is zero), and of two adjacent
\* candidates of equal popularity the first has no later date.
Popularity(x) == IF x.popularity = <<>> THEN 0 ELSE x.popularity[1]

C12_ByPopularityThenDate ==
    (run.kind = "series" /\ run.stage = "done" /\ run.sent # <<>>) =>
        \A i \in 1..(Len(run.sent[1]) - 1) :
            /\ Popularity(run.sent[1][i]) >= Popularity(run.sent[1][i + 1])
            /\ Popularity(run.sent[1][i]) = Popularity(run.sent[1][i + 1])
                  => run.sent[1][i].date.day <= run.sent[1][i + 1].date.day

\* ------------------------------------------------------------- the store
AddHandlers == {"addseries_choice", "addmovie_choice",
                "addfaveseries", "addfavemovie"}
\* the set a handler works on, out of the four sets r
TargetOf(h, r) ==
    CASE h \in {"addseries_choice", "removeseries"} -> r.series
      [] h \in {"addmovie_choice", "removemovie"} -> r.movies
      [] h \in {"addfaveseries", "removefaveseries"} -> r.favourite_series
      [] h \in {"addfavemovie", "removefavemovie"} -> r.favourite_movies
InMemory == [series |-> highlight_titles, movies |-> highlight_movies,
             favourite_series |-> favourite_series,
             favourite_movies |-> favourite_movies]
HasInSomeCase(S, e) == \E x \in S : lower(x) = lower(e)

\* C13: when an add handler has stored an entry (and awaits its reply),
\* loading the file yields a set that holds the entry, once; an entry the
\* handler found present already is in the loaded set as well.
C13_AddedEntryIsLoaded ==
    reply.handler \in AddHandlers =>
        LET l == LoadFrom(file)
            S == TargetOf(reply.handler, l)
        IN /\ ~l.raises
           /\ \A i \in 1..Len(reply.added) :
                 /\ l.loaded
                 /\ Cardinality({x \in S : x = reply.added[i]}) = 1
           /\ \A i \in 1..Len(reply.already) :
                 HasInSomeCase(S, reply.already[i])

\* /addfaveseries Dune for the second time: nothing added, and the file
\* holds the entry
C13_AddedTwice ==
    /\ reply.handler = "addfaveseries"
    /\ reply.added = <<>>
    /\ reply.already = <<Str("dune", TRUE)>>
    /\ LoadFrom(file).favourite_series = {Str("dune", TRUE)}

\* C14: an add handler reports an entry as added only if the set did not
\* hold it, in whatever case, and then the set has grown by what was added.
C14_PresentEntryNotAddedAgain ==
    [][(reply = NoReply /\ reply'.handler \in AddHandlers) =>
          /\ \A i \in 1..Len(reply'.added) :
                ~HasInSomeCase(TargetOf(reply'.handler, InMemory),
                               reply'.added[i])
          /\ Cardinality(TargetOf(reply'.handler, InMemory'))
                = Cardinality(TargetOf(reply'.handler, InMemory))
                  + Len(reply'.added)]_vars

\* C15: a remove handler whose argument is in the set in no case replies
\* "not in your list" and leaves the four sets and the file as they are.
C15_RemoveAbsent ==
    [][\A c \in Chats, u \in Users, a \in RemoveArgs :
          /\ (removeseries(c, u, a) /\ ~HasInSomeCase(highlight_titles, a))
                => /\ reply'.text = "is not in your highlight series list"
                   /\ UNCHANGED <<store, file, phase>>
          /\ (removemovie(c, u, a) /\ ~HasInSomeCase(highlight_movies, a))
                => /\ reply'.text = "is not in your highlight movies list"
                   /\ UNCHANGED <<store, file, phase>>
          /\ (removefaveseries(c, u, a) /\ ~HasInSomeCase(favourite_series, a))
                => /\ reply'.text = "is not in your favourite series list"
                   /\ UNCHANGED <<store, file, phase>>
          /\ (removefavemovie(c, u, a) /\ ~HasInSomeCase(favourite_movies, a))
                => /\ reply'.text = "is not in your favourite movies list"
                   /\ UNCHANGED <<store, file, phase>>]_vars

\* /removefavemovie for a title that is not among the favourite movies,
\* which are not empty
C15_AbsentFromNonEmptySet ==
    /\ reply.handler = "removefavemovie"
    /\ reply.text = "is not in your favourite movies list"
    /\ favourite_movies # {}
    /\ file = Doc(highlight_titles, highlight_movies,
                  favourite_series, favourite_movies)

\* C16: a remove handler whose argument is in the set in some case replies
\* "Removed" and takes exactly one entry out of the set.
C16_RemovePresent ==
    [][\A c \in Chats, u \in Users, a \in RemoveArgs :
          /\ (removeseries(c, u, a) /\ HasInSomeCase(highlight_titles, a))
                => /\ reply'.text = "Removed from your highlight series list"
                   /\ highlight_titles' \subseteq highlight_titles
                   /\ Cardinality(highlight_titles')
                         = Cardinality(highlight_titles) - 1
          /\ (removemovie(c, u, a) /\ HasInSomeCase(highlight_movies, a))
                => /\ reply'.text = "Removed from your highlight movies list"
                   /\ highlight_movies' \subseteq highlight_movies
                   /\ Cardinality(highlight_movies')
                         = Cardinality(highlight_movies) - 1
          /\ (removefaveseries(c, u, a) /\ HasInSomeCase(favourite_series, a))
                => /\ reply'.text = "Removed from your favourite series list"
                   /\ favourite_series' \subseteq favourite_series
                   /\ Cardinality(favourite_series')
                         = Cardinality(favourite_series) - 1
          /\ (removefavemovie(c, u, a) /\ HasInSomeCase(favourite_movies, a))
                => /\ reply'.text = "Removed from your favourite movies list"
                   /\ favourite_movies' \subseteq favourite_movies
                   /\ Cardinality(favourite_movies')
                         = Cardinality(favourite_movies) - 1]_vars

\* C17, as stated: while the process runs, the file is the document of the
\* four sets in memory.
C17_FileHoldsMemory ==
    phase = "running" =>
        file = Doc(highlight_titles, highlight_movies,
                   favourite_series, favourite_movies)

\* C17, amended: while the process runs, a file that exists holds the four
\* sets in memory (a key it lacks standing for the empty set), and without
\* a file the sets in memory are the seeds.
C17_FileFollowsMemory ==
    phase = "running" =>
        LET l == LoadFrom(file) IN
        /\ ~l.raises
        /\ IF l.loaded
           THEN /\ highlight_titles = l.series
                /\ highlight_movies = l.movies
                /\ favourite_series = l.favourite_series
                /\ favourite_movies = l.favourite_movies
           ELSE /\ highlight_titles = SeedSeries
                /\ highlight_movies = SeedMovies
                /\ favourite_series = {}
                /\ favourite_movies = {}

\* a handler that has taken a title out of the tracked series awaits its
\* reply: the file holds the sets as they are now
C17_SavedBeforeTheReply ==
    /\ reply.handler = "removeseries"
    /\ reply.text = "Removed from your highlight series list"
    /\ file = Doc(highlight_titles, highlight_movies,
                  favourite_series, favourite_movies)
    /\ Str("you", FALSE) \notin highlight_titles

\* C18: whenever the file changes, what it holds then is a complete
\* document.
C18_SaveIsAtomic ==
    [][file' # file => (file'.exists /\ file'.json = "object")]_vars

\* C19: with a file that exists and is no JSON object the process is never
\* running, and no step changes the file.
IsMalformed(f) == f.exists /\ f.json # "object"

C19_MalformedFileIsFatal ==
    /\ [](IsMalformed(file) => phase # "running")
    /\ [][IsMalformed(file) => file' = file]_vars

\* the startup has failed on the malformed file
C19_StartupFailed ==
    /\ phase = "exited"
    /\ file = Malformed
    /\ highlight_titles = SeedSeries /\ highlight_movies = SeedMovies

\* C20: a startup that succeeds leaves each set equal to the file's array
\* under its key when the file has the key, and to its seed otherwise.
C20_SeedWhenKeyMissing ==
    [][(Startup /\ phase' = "running") =>
          /\ highlight_titles' =
                IF file.exists /\ file.series # <<>>
                THEN file.series[1] ELSE SeedSeries
          /\ highlight_movies' =
                IF file.exists /\ file.movies # <<>>
                THEN file.movies[1] ELSE SeedMovies
          /\ favourite_series' =
                IF file.exists /\ file.favourite_series # <<>>
                THEN file.favourite_series[1] ELSE {}
          /\ favourite_movies' =
                IF file.exists /\ file.favourite_movies # <<>>
                THEN file.favourite_movies[1] ELSE {}]_vars

\* C21: in step 2 of a selection flow a reply that is not an integer, or
\* is an integer outside 1..N, is answered with the prompt again while the
\* pending candidates of the chat, the four sets and the file stay as they
\* are, and when that handler ends - its reply sent or not - the
\* conversation is still waiting for the choice.
Invalid(text, results) ==
    ~text.isint \/ ~(1 <= text.val /\ text.val <= Len(results))
ChoiceHandlers == {"addseries_choice", "addmovie_choice"}
C21_InvalidChoiceAsksAgain ==
    [][/\ \A c \in Chats, u \in Users, t \in Texts :
            /\ (addseries_choice(c, u, t) /\ user_addseries_context[c] # <<>>
                    /\ Invalid(t, user_addseries_context[c]))
                => /\ reply'.text = "Invalid choice."
                   /\ UNCHANGED <<store, file, conv, movie_flow,
                                  user_addseries_context>>
            /\ (addmovie_choice(c, u, t) /\ user_addmovie_context[c] # <<>>
                    /\ Invalid(t, user_addmovie_context[c]))
                => /\ reply'.text = "Invalid choice."
                   /\ UNCHANGED <<store, file, conv, movie_flow,
                                  user_addseries_context>>
       /\ (reply.handler \in ChoiceHandlers /\ reply.text = "Invalid choice."
              /\ reply' = NoReply)
           => /\ UNCHANGED <<store, file, conv, movie_flow, user_addseries_context>>
              /\ reply.handler = "addseries_choice"
                    => conv[<<reply.chat, reply.user>>] = "CHOICE"
              /\ reply.handler = "addmovie_choice"
                    => conv_movie[<<reply.chat, reply.user>>] = "CHOICE"]_vars

\* an invalid choice was answered and the flow of the chat is waiting for
\* the choice again, its candidates still pending
C21_AskedAgain ==
    /\ reply = NoReply
    /\ conv[<<41, 7>>] = "CHOICE"
    /\ Len(user_addseries_context[41]) = 5
    /\ conv_movie[<<42, 7>>] = "CHOICE"
    /\ user_addmovie_context[42] = <<1>>
    /\ highlight_titles = SeedSeries
    /\ ~file.exists

\* C22: when the handler of a valid choice has ended - whether its
\* confirmation was sent or not - the lower-cased entry is in the tracked
\* set and in the file, the flow has ended and the pending candidates of
\* the chat are cleared.
C22_ValidChoiceEndsTheFlow ==
    [][(reply.handler \in ChoiceHandlers /\ reply.added # <<>> /\ reply' = NoReply)
        => LET e == reply.added[1]
               k == <<reply.chat, reply.user>> IN
           IF reply.handler = "addseries_choice"
           THEN /\ e = lower(e) /\ e \in highlight_titles'
                /\ file'.exists /\ e \in Get(file'.series)
                /\ conv'[k] = "END"
                /\ user_addseries_context'[reply.chat] = <<>>
           ELSE /\ e = lower(e) /\ e \in highlight_movies'
                /\ file'.exists /\ e \in Get(file'.movies)
                /\ conv_movie'[k] = "END"
                /\ user_addmovie_context'[reply.chat] = <<>>]_vars

\* C23: step 1 stores candidates for the chat only when the search returned
\* some, it stores the first five of them at most, and a search without a
\* result leaves every pending list as it is and ends the flow.
C23_PendingListOneToFive ==
    /\ [](\A c \in Chats : /\ Len(user_addseries_context[c]) <= ADD_MAX_RESULTS
                           /\ Len(user_addmovie_context[c]) <= ADD_MAX_RESULTS)
    /\ [][/\ \A c \in Chats, u \in Users :
              /\ \A r \in FlowTVResponses : addseries(c, u, r) =>
                    IF r = <<>>
                    THEN /\ UNCHANGED <<user_addseries_context, movie_flow>>
                         /\ reply'.text = "No matching series found."
                    ELSE /\ Len(user_addseries_context'[c]) \in 1..ADD_MAX_RESULTS
                         /\ user_addseries_context'[c] =
                               SubSeq(r, 1, Len(user_addseries_context'[c]))
                         /\ Len(r) <= ADD_MAX_RESULTS
                               => user_addseries_context'[c] = r
              /\ \A r \in FlowMovieResponses : addmovie(c, u, r) =>
                    IF r = <<>>
                    THEN /\ UNCHANGED <<user_addseries_context, movie_flow>>
                         /\ reply'.text = "No matching movies found."
                    ELSE /\ Len(user_addmovie_context'[c]) \in 1..ADD_MAX_RESULTS
                         /\ user_addmovie_context'[c] =
                               SubSeq(r, 1, Len(user_addmovie_context'[c]))
                         /\ Len(r) <= ADD_MAX_RESULTS
                               => user_addmovie_context'[c] = r
          /\ (reply.handler \in {"addseries", "addmovie"}
                 /\ reply.text \in {"No matching series found.",
                                    "No matching movies found."}
                 /\ reply' = NoReply)
              => /\ UNCHANGED <<user_addseries_context, user_addmovie_context>>
                 /\ reply.handler = "addseries"
                       => conv'[<<reply.chat, reply.user>>] = "END"
                 /\ reply.handler = "addmovie"
                       => conv_movie'[<<reply.chat, reply.user>>] = "END"
          /\ \A c \in Chats :
              /\ (user_addseries_context'[c] # user_addseries_context[c]
                     /\ user_addseries_context'[c] # <<>>)
                  => \E u \in Users, r \in FlowTVResponses \ {<<>>} :
                         addseries(c, u, r)
              /\ (user_addmovie_context'[c] # user_addmovie_context[c]
                     /\ user_addmovie_context'[c] # <<>>)
                  => \E u \in Users, r \in FlowMovieResponses \ {<<>>} :
                         addmovie(c, u, r)]_vars

\* a search returned six series and five of them are pending, while a
\* search of the other chat found no movie and left its flow ended
C23_FiveOfSixPending ==
    /\ Len(user_addseries_context[41]) = ADD_MAX_RESULTS
    /\ reply.handler = "addmovie" /\ reply.chat = 42
    /\ reply.text = "No matching movies found."
    /\ user_addmovie_context[42] = <<>>

\* C24: once notifyoff has run for a chat the chat has no job, a tick of a
\* chat starts only from a job of that chat, and a job appears only through
\* notifyon of that chat - so no tick starts between notifyoff and the next
\* notifyon; notifyoff leaves a tick in flight as it is, and that tick
\* still sends its message.
C24_NoNewTickAfterNotifyOff ==
    /\ [](reply.handler = "notifyoff" => jobs[reply.chat] = <<>>)
    /\ [][/\ \A c \in Chats :
              /\ (run = Idle /\ run'.kind = "tick" /\ run'.chat = c)
                  => jobs[c] # <<>>
              /\ (jobs[c] = <<>> /\ jobs'[c] # <<>>)
                  => \E u \in Users : notifyon(c, u)
              /\ \A u \in Users : notifyoff(c, u) => run' = run
          /\ (send_message /\ jobs[run.chat] = <<>>)
              => /\ run'.sent = <<[series |-> run.upcoming_series,
                                   movies |-> run.upcoming_movies]>>
                 /\ jobs' = jobs]_vars

\* notifyoff has run for the chat of a tick in flight and the tick has
\* delivered its message
C24_TickInFlightDelivers ==
    /\ reply.handler = "notifyoff"
    /\ run.kind = "tick" /\ run.chat = reply.chat
    /\ reply.removed = 1
    /\ jobs[run.chat] = <<>>
    /\ run.stage = "done"
    /\ Len(run.sent) = 1
    /\ run.upcoming_movies # <<>>

\* C25: notifyon leaves the chat with a job that is due at once; a job that
\* is due is fired (or removed by notifyoff) in the end, and only so does
\* it stop being due; firing it makes it due again one interval later, and
\* the passing of a day brings that nearer by one day - so the ticks of a
\* chat go on day after day until notifyoff.
JobDue(c) == jobs[c] # <<>> /\ jobs[c][1].wait = 0
TickFailed(c) == run.kind = "tick" /\ run.chat = c /\ run.error = "provider"
C26_FailureHaltsNothing ==
    /\ \A c \in Chats :
          (TickFailed(c) /\ today < MaxDay)
              ~> (jobs[c] = <<>> \/ (run.kind = "tick" /\ run.chat = c
                                        /\ run.error = ""))
    /\ [][(fetch_json_raises \/ tick_ends)
            => /\ UNCHANGED <<jobs, phase, reply, conv, store, file>>
               /\ run'.kind \in {"none", "tick"}]_vars
    /\ [](TickOver /\ run.error = "provider"
            => /\ phase = "running"
               /\ reply = NoReply => \A c \in Chats, u \in Users :
                      ENABLED notifyon(c, u) /\ ENABLED notifyoff(c, u))

\* a tick of one chat has failed on a provider call, its job is scheduled
\* for the next day, and a command of the other chat has been handled
C26_FailedTickKeepsItsJob ==
    /\ run.kind = "tick" /\ run.chat = 41
    /\ run.stage = "failed" /\ run.error = "provider"
    /\ jobs[41] = <<[wait |-> NOTIFY_INTERVAL]>>
    /\ reply.handler = "notifyon" /\ reply.chat = 42

\* C27: a run that hit a failed provider call ends by reporting one generic
\* failure message: a tick has sent one message to its chat, /series
\* replies with its apology, and no run is left in the state of an
\* exception that went out of it.
C27_FailureIsReported ==
    (InRun /\ run.error = "provider" /\ run.stage \in {"done", "failed"})
        => IF run.kind = "tick"
           THEN run.stage = "done" /\ Len(run.sent) = 1
           ELSE run.stage = "done" => reply.text = "Sorry, an error occurred"

\* C28: a tick starts from the tracked sets as they are when it is fired,
\* whichever chat changed them and whenever notifyon was given: when it has
\* gone through its loops without an error it has searched every series
\* tracked at its start and every movie tracked when it ended the loop.
C28_TickReadsTheSetsOfItsTime ==
    [][/\ \A c \in Chats : Fires(c) => run'.start = TrackedNow
       /\ (run'.kind = "tick" /\ run.stage \notin {"send", "done"}
              /\ run'.stage \in {"send", "done"})
           => /\ run'.seen.series = run'.start.series
              /\ run.kind = "tick" => run'.start = run.start
              /\ run'.seen.movies = highlight_movies]_vars

\* a tick of chat 42 has searched the one series left after a series was
\* removed from the seeds, and no other
C28_TickAfterRemoval ==
    /\ run.kind = "tick" /\ run.chat = 42 /\ run.stage = "done" /\ run.error = ""
    /\ file.exists /\ Get(file.movies) = SeedMovies
    /\ Cardinality(run.start.series) = 1
    /\ run.seen.series = run.start.series
    /\ run.start.series # SeedSeries
    /\ run.seen.movies = SeedMovies

\* C29: the listing fetches the pages 1..5 at most, one more page after
\* every page that is not empty while fewer than max_results items are
\* collected; an empty page or max_results items end it; what it returns
\* has at most max_results items, each with a date that parses and lies
\* from the day of the call to 30 days after it.
C29_UpcomingIsBounded ==
    /\ [](run.kind = "upcoming" =>
            /\ run.page \in 1..(MAX_PAGES + 1)
            /\ run.stage = "U_fetch"
                  => run.page <= MAX_PAGES /\ Len(run.results) < run.max_results
            /\ run.stage = "U_return" =>
                  /\ Len(run.results) <= run.max_results
                  /\ \A i \in 1..Len(run.results) :
                        /\ strptime(run.results[i]) # <<>>
                        /\ run.now <= run.results[i].day
                        /\ run.results[i].day <= run.now + UPCOMING_DAYS)
    /\ [][\A p \in UpcomingPages : upcoming_page(p) =>
            /\ run'.stage \in {"U_fetch", "U_return"}
            /\ run'.stage = "U_fetch" => run'.page = run.page + 1
            /\ p = <<>> => run'.stage = "U_return" /\ run'.results = run.results
            /\ Len(run'.results) >= run.max_results => run'.stage = "U_return"
            /\ run.page = MAX_PAGES => run'.stage = "U_return"]_vars

\* the listing has returned after its fifth page, with fewer items than
\* it was asked for and items of more than one page
C29_ReturnedAfterFivePages ==
    /\ run.kind = "upcoming" /\ run.stage = "U_return"
    /\ run.page = MAX_PAGES + 1
    /\ run.max_results = DEFAULT_MAX_RESULTS
    /\ Len(run.results) >= 3
    /\ \E i \in 1..Len(run.results) : run.results[i] = Ymd(UPCOMING_DAYS + 1)

NoCasePair(S) == \A a, b \in S : lower(a) = lower(b) => a = b
FavouritesClean ==
    /\ NoCasePair(favourite_series) /\ NoCasePair(favourite_movies)
    /\ NoCasePair(Get(file.favourite_series))
    /\ NoCasePair(Get(file.favourite_movies))
C32_ChoiceStateHasCandidates ==
    /\ reply.text # "No series selection in progress."
    /\ reply = NoReply =>
          \A c \in Chats :
              /\ \A u \in AllUsers : conv[<<c, u>>] = "CHOICE"
                                        => user_addseries_context[c] # <<>>
              /\ user_addseries_context[c] # <<>>
                    => \E u \in AllUsers : conv[<<c, u>>] = "CHOICE"

\* C33: the candidates a user was presented stay the ones their reply
\* selects from: while a user of the chat is in the choice state, step 1
\* of another user of the chat does not put other candidates in their
\* place.
C33_OwnListUntilTheReply ==
    [][\A c \in Chats, u \in AllUsers, r \in SharedTVResponses :
          (/\ addseries(c, u, r)
           /\ user_addseries_context[c] # <<>>
           /\ \E v \in AllUsers \ {u} : conv[<<c, v>>] = "CHOICE")
              => user_addseries_context'[c] = user_addseries_context[c]]_vars

\* C34: while a handler that changed a set awaits the reply telling the
\* user of the addition or removal, the file already holds the four sets
\* as they are in memory, and the sending of the reply changes neither.
RemoveHandlers == {"removeseries", "removemovie",
                   "removefaveseries", "removefavemovie"}
Confirming ==
    \/ reply.handler \in AddHandlers /\ reply.added # <<>>
    \/ reply.handler \in RemoveHandlers
          /\ reply.text \in {"Removed from your highlight series list",
                             "Removed from your highlight movies list",
                             "Removed from your favourite series list",
                             "Removed from your favourite movies list"}
C34_SavedBeforeConfirmation ==
    /\ [](Confirming =>
            /\ file = Doc(highlight_titles, highlight_movies,
                          favourite_series, favourite_movies)
            /\ \A i \in 1..Len(reply.added) :
                  reply.added[i] \in TargetOf(reply.handler, InMemory))
    /\ [][(Confirming /\ Replied) => UNCHANGED <<file, store>>]_vars

\* a favourite movie was removed and the handler awaits its confirmation:
\* the file, absent when the bot started, holds the sets without it
C34_RemovalSavedFirst ==
    /\ reply.handler = "removefavemovie" /\ Confirming
    /\ favourite_movies = {}
    /\ highlight_titles = SeedSeries /\ highlight_movies = SeedMovies
    /\ file = Doc(SeedSeries, SeedMovies, favourite_series, {})

\* C35: notifyon and notifyoff of a chat leave the jobs of every other
\* chat, the four sets, the file, the pending candidates and the
\* conversations as they are.
C35_OnlyTheJobOfTheChat ==
    [][\A c \in Chats, u \in Users :
          (notifyon(c, u) \/ notifyoff(c, u))
              => /\ \A d \in Chats \ {c} : jobs'[d] = jobs[d]
                 /\ UNCHANGED <<store, file, user_addseries_context,
                                movie_flow, conv>>]_vars

\* notifyoff has removed the job of chat 42 while chat 41 has its job, a
\* series added since the start is saved and candidates are pending
C35_OtherChatKeepsItsJob ==
    /\ reply.handler = "notifyoff" /\ reply.chat = 42 /\ reply.removed = 1
    /\ jobs[42] = <<>> /\ jobs[41] = <<[wait |-> 0]>>
    /\ user_addseries_context[41] # <<>>
    /\ file.exists /\ Get(file.series) = highlight_titles
    /\ Cardinality(highlight_titles) = 3

\* C36: every candidate of a tick or of /series stands for a season of its
\* show that has a season number other than 0 and an air date that is set;
\* a season numbered 0 or without a number gives none, whatever its date.
SeasonCandidates == run.upcoming_series \o run.shows_to_display
C36_NoCandidateForSeasonZero ==
    \A i \in 1..Len(SeasonCandidates) :
        LET x == SeasonCandidates[i]
            seasons == TVDetails[x.id].seasons IN
        /\ x.label # 0
        /\ \E k \in 1..Len(seasons) :
              /\ seasons[k].season_number = <<x.label>>
              /\ seasons[k].air_date = x.date
              /\ TruthyDate(seasons[k].air_date)

\* a tick of day 0 went through the seasons of "Severance": seasons 1 and
\* 2 are candidates, season 0, airing on day 1 inside the window, is not
C36_SpecialsLeftOut ==
    /\ run.kind = "tick" /\ run.now = 0 /\ run.error = ""
    /\ Len(run.upcoming_series) = 2
    /\ run.upcoming_series[1].id = 1 /\ run.upcoming_series[1].label = 1
    /\ run.upcoming_series[2].id = 1 /\ run.upcoming_series[2].label = 2
    /\ \E k \in 1..Len(TVDetails[1].seasons) :
          /\ TVDetails[1].seasons[k].season_number = <<0>>
          /\ InWindow(TVDetails[1].seasons[k].air_date, run.now, run.cutoff)

====
